---------------------------- MODULE Spec2Model ----------------------------
(***************************************************************************)
(* GlossGen analysis pipeline: the Content Sampler                         *)
(* (selectRepresentativeFiles) and the two orchestrators (analyzeRepo,     *)
(* analyzeProfile) of the GitHub service module.                           *)
(*                                                                         *)
(* The repository holds three copies of the service module that differ in  *)
(* behaviour; the variable impl says which copy is running:                *)
(*   "services" : src/services/githubService.ts                            *)
(*   "part_006" : src/unnamed/part_006                                     *)
(*   "HomePage" : src/src/pages/HomePage.tsx, lines 113-529                *)
(*                                                                         *)
(* JavaScript strings that the code inspects character by character        *)
(* (paths, URL path names) are sequences of one-character strings, so that *)
(* endsWith / startsWith / includes / split are computed as the code       *)
(* computes them.                                                          *)
(***************************************************************************)
EXTENDS Integers, Sequences, FiniteSets, TLC

VARIABLES
    impl,             \* which copy of the service module runs
    tree,             \* allFiles: sequence of [path, type] entries
    sampled,          \* representativeFilePaths, or NotSampled
    singles,          \* number of tree entries appended one by one
    analysisType,     \* "repo" (analyzeRepo) or "profile" (analyzeProfile)
    input,            \* the URL argument of the request
    pc,               \* the await the request is suspended at
    calls,            \* upstream calls issued so far, in order
    responses,        \* upstream responses received so far, in order
    outcome,          \* "pending", "success" (resolved) or "failure" (thrown)
    error,            \* message of the thrown Error
    commitCount,      \* let commitCount
    fileResult,       \* one slot per sampled path: the async callback's state
    fileContents,     \* what Promise.all resolved to
    user,             \* const user
    repos,            \* the user's non-fork repositories
    contributionData, \* let contributionData
    result,           \* the returned AnalysisResult / ProfileAnalysisResult
    today,            \* ContributionChart: new Date() as [zone, day, hour]
    data,             \* ContributionChart: the data prop
    weeks,            \* ContributionChart: const weeks
    monthLabels,      \* ContributionChart: const monthLabels
    page,             \* the results page component that is mounted
    urlParam,         \* results page: searchParams.get('repo' / 'user') || ''
    analysisResult,   \* results page: useState analysisResult
    isLoading,        \* results page: useState isLoading
    pageError,        \* results page: useState error
    inFlight,         \* results page: analyses awaited by an effect run
    started           \* results page: number of effect runs so far

samplerVars == <<tree, sampled, singles>>
requestVars == <<analysisType, input, pc, calls, responses, outcome, error, commitCount,
                 fileResult, fileContents, user, repos, contributionData, result>>
chartVars == <<today, data, weeks, monthLabels>>
pageVars == <<page, urlParam, analysisResult, isLoading, pageError, inFlight,
              started>>
vars == <<impl, tree, sampled, singles, analysisType, input, pc, calls,
          responses,
          outcome, error, commitCount, fileResult, fileContents, user, repos,
          contributionData, result, today, data, weeks, monthLabels,
          page, urlParam, analysisResult, isLoading, pageError, inFlight,
          started>>

\* JavaScript values that need not be arrays
JsArray(items) == [type |-> "array", items |-> items]
JsObject == [type |-> "object", items |-> <<>>]
JsUndefined == [type |-> "undefined", items |-> <<>>]

NoValue == "NoValue"       \* a variable the request has not reached yet

Impls == {"services", "part_006", "HomePage"}

\* representativeFilePaths before the sampler has run: a list no tree yields
NotSampled == << <<"?">> >>

(***************************************************************************)
(* String primitives of JavaScript, on sequences of characters.            *)
(***************************************************************************)
endsWith(s, suffix) ==
    /\ Len(suffix) <= Len(s)
    /\ SubSeq(s, Len(s) - Len(suffix) + 1, Len(s)) = suffix

startsWith(s, prefix) ==
    /\ Len(prefix) <= Len(s)
    /\ SubSeq(s, 1, Len(prefix)) = prefix

includes(s, sub) ==
    \E i \in 1..(Len(s) - Len(sub) + 1) : SubSeq(s, i, i + Len(sub) - 1) = sub

\* String.prototype.split(sep) for a one-character separator: the pieces
\* between separators, empty pieces kept.
RECURSIVE splitFrom(_, _, _)
splitFrom(s, sep, cur) ==
    IF s = <<>> THEN <<cur>>
    ELSE IF Head(s) = sep THEN <<cur>> \o splitFrom(Tail(s), sep, <<>>)
    ELSE splitFrom(Tail(s), sep, Append(cur, Head(s)))

split(s, sep) == splitFrom(s, sep, <<>>)

\* Array.prototype.slice(0, n)
sliceFirst(seq, n) == SubSeq(seq, 1, IF Len(seq) < n THEN Len(seq) ELSE n)

(***************************************************************************)
(* selectRepresentativeFiles                                               *)
(***************************************************************************)
SOURCE_EXTENSIONS ==
    { <<".", "j", "s">>, <<".", "j", "s", "x">>, <<".", "t", "s">>,
      <<".", "t", "s", "x">>, <<".", "p", "y">>, <<".", "g", "o">>,
      <<".", "r", "s">>, <<".", "j", "a", "v", "a">>, <<".", "r", "b">>,
      <<".", "p", "h", "p">>, <<"v", "u", "e">>,
      <<"s", "v", "e", "l", "t", "e">> }

EXCLUDED_DIRS ==
    { <<"n", "o", "d", "e", "_", "m", "o", "d", "u", "l", "e", "s">>,
      <<"d", "i", "s", "t">>, <<"b", "u", "i", "l", "d">>,
      <<"v", "e", "n", "d", "o", "r">>, <<"t", "e", "s", "t">>,
      <<"t", "e", "s", "t", "s">>, <<"d", "o", "c", "s">>,
      <<"e", "x", "a", "m", "p", "l", "e", "s">>,
      <<".", "g", "i", "t", "h", "u", "b">>,
      <<"a", "s", "s", "e", "t", "s">> }

isSourceFile(path) ==
    \E ext \in SOURCE_EXTENSIONS :
        /\ endsWith(path, ext)
        /\ ~endsWith(path, <<".", "m", "i", "n">> \o ext)

\* isNotExcluded without the test for a directory at the start of the path
isNotExcludedNestedOnly(path) ==
    ~\E dir \in EXCLUDED_DIRS : includes(path, <<"/">> \o dir \o <<"/">>)

isNotExcluded(path) ==
    ~\E dir \in EXCLUDED_DIRS :
        \/ includes(path, <<"/">> \o dir \o <<"/">>)
        \/ startsWith(path, dir \o <<"/">>)

\* the filter callback of selectRepresentativeFiles
isRepresentative(file) ==
    /\ file.type = "blob"
    /\ isSourceFile(file.path)
    /\ isNotExcluded(file.path)

\* the argument of .slice(0, n) in each copy
SliceLimitServices == 15
SliceLimitPart006 == 5
SliceLimitHomePage == 5

SliceLimit(i) ==
    CASE i = "services" -> SliceLimitServices
      [] i = "part_006" -> SliceLimitPart006
      [] i = "HomePage" -> SliceLimitHomePage

RECURSIVE mapPath(_)
mapPath(files) ==
    IF files = <<>> THEN <<>>
    ELSE <<Head(files).path>> \o mapPath(Tail(files))

selectRepresentativeFiles(i, files) ==
    sliceFirst(mapPath(SelectSeq(files, isRepresentative)), SliceLimit(i))


(***************************************************************************)
(* Sampler inputs: file trees as the git-tree listing returns them.  Every *)
(* entry gets a path of its own (a two-digit file name) in one of the      *)
(* shapes below.                                                           *)
(***************************************************************************)
MaxTree == 26      \* longest tree
BatchLen == 5      \* entries appended by one AddBatch
MaxSingles == 1    \* entries appended one by one

DigitChars == <<"0", "1", "2", "3", "4", "5", "6", "7", "8", "9">>
FileName(n) == <<DigitChars[(n \div 10) + 1], DigitChars[(n % 10) + 1]>>

PathKinds ==
    { "source", "excludedTop", "excludedNested", "lookalikeDir",
      "minified", "noDotExt", "notSource", "subtree" }
BatchKinds == { "source", "excludedTop" }

MakeEntry(kind, n) ==
    CASE kind = "source" ->          \* src/NN.ts
           [path |-> <<"s", "r", "c", "/">> \o FileName(n) \o <<".", "t", "s">>,
            type |-> "blob"]
      [] kind = "excludedTop" ->     \* test/NN.js
           [path |-> <<"t", "e", "s", "t", "/">> \o FileName(n) \o <<".", "j", "s">>,
            type |-> "blob"]
      [] kind = "excludedNested" ->  \* src/docs/NN.py
           [path |-> <<"s", "r", "c", "/", "d", "o", "c", "s", "/">>
                       \o FileName(n) \o <<".", "p", "y">>,
            type |-> "blob"]
      [] kind = "lookalikeDir" ->    \* latest/NN.js
           [path |-> <<"l", "a", "t", "e", "s", "t", "/">> \o FileName(n)
                       \o <<".", "j", "s">>,
            type |-> "blob"]
      [] kind = "minified" ->        \* src/NN.min.js
           [path |-> <<"s", "r", "c", "/">> \o FileName(n)
                       \o <<".", "m", "i", "n", ".", "j", "s">>,
            type |-> "blob"]
      [] kind = "noDotExt" ->        \* src/NNvue
           [path |-> <<"s", "r", "c", "/">> \o FileName(n) \o <<"v", "u", "e">>,
            type |-> "blob"]
      [] kind = "notSource" ->       \* src/NN.md
           [path |-> <<"s", "r", "c", "/">> \o FileName(n) \o <<".", "m", "d">>,
            type |-> "blob"]
      [] kind = "subtree" ->         \* src/NN.js, a directory
           [path |-> <<"s", "r", "c", "/">> \o FileName(n) \o <<".", "j", "s">>,
            type |-> "tree"]

RECURSIVE MakeBatch(_, _, _)
MakeBatch(kind, from, count) ==
    IF count = 0 THEN <<>>
    ELSE <<MakeEntry(kind, from)>> \o MakeBatch(kind, from + 1, count - 1)

\* the URL argument before any request was made
NoInput == [parses |-> FALSE, hostname |-> "", pathname |-> <<>>]

\* no request is running
RequestIdle ==
    /\ analysisType = NoValue
    /\ input = NoInput
    /\ pc = "idle"
    /\ calls = <<>>
    /\ responses = <<>>
    /\ outcome = "pending"
    /\ error = NoValue
    /\ commitCount = 0
    /\ fileResult = <<>>
    /\ fileContents = <<>>
    /\ user = NoValue
    /\ repos = <<>>
    /\ contributionData = JsUndefined
    /\ result = NoValue

\* new Date() before the chart is rendered: the epoch at UTC
NoToday == [zone |-> "UTC", day |-> 0, hour |-> 0]

\* the chart is not rendered
ChartIdle ==
    /\ today = NoToday
    /\ data = <<>>
    /\ weeks = <<>>
    /\ monthLabels = <<>>

\* useState(null) of analysisResult and of error
NoAnalysis == [of |-> "null"]
NoError == [of |-> "null", message |-> "null"]

\* the state of a results page at its first render, before its effect runs
Unmounted ==
    /\ urlParam = "null"
    /\ analysisResult = NoAnalysis
    /\ isLoading = TRUE
    /\ pageError = NoError
    /\ inFlight = {}
    /\ started = 0

\* no results page is shown
PageIdle == page = "none" /\ Unmounted

SamplerInit ==
    /\ impl \in Impls
    /\ tree = <<>>
    /\ sampled = NotSampled
    /\ singles = 0
    /\ RequestIdle
    /\ ChartIdle
    /\ PageIdle

\* the tree listing grows by one entry
AddEntry(kind) ==
    /\ sampled = NotSampled
    /\ singles < MaxSingles
    /\ Len(tree) < MaxTree
    /\ tree' = Append(tree, MakeEntry(kind, Len(tree) + 1))
    /\ singles' = singles + 1
    /\ UNCHANGED <<impl, pageVars, chartVars, sampled, requestVars>>

\* the tree listing grows by a run of entries of one shape
AddBatch(kind) ==
    /\ sampled = NotSampled
    /\ Len(tree) + BatchLen <= MaxTree
    /\ tree' = tree \o MakeBatch(kind, Len(tree) + 1, BatchLen)
    /\ UNCHANGED <<impl, pageVars, chartVars, sampled, singles, requestVars>>

\* representativeFilePaths = selectRepresentativeFiles(allFiles)
Sample ==
    /\ sampled = NotSampled
    /\ sampled' = selectRepresentativeFiles(impl, tree)
    /\ UNCHANGED <<impl, pageVars, chartVars, tree, singles, requestVars>>

SamplerNext ==
    \/ \E kind \in PathKinds : AddEntry(kind)
    \/ \E kind \in BatchKinds : AddBatch(kind)
    \/ Sample

SpecSampler == SamplerInit /\ [][SamplerNext]_vars


(***************************************************************************)
(* URL validation                                                          *)
(*   input.parses   : new URL(input) does not throw                        *)
(*   input.hostname : url.hostname                                         *)
(*   input.pathname : url.pathname, a sequence of characters               *)
(***************************************************************************)
\* Array.prototype.filter(Boolean) on an array of strings
RECURSIVE filterBoolean(_)
filterBoolean(parts) ==
    IF parts = <<>> THEN <<>>
    ELSE IF Head(parts) = <<>> THEN filterBoolean(Tail(parts))
    ELSE <<Head(parts)>> \o filterBoolean(Tail(parts))

\* url.pathname.split('/').filter(Boolean)
pathParts(url) == filterBoolean(split(url.pathname, "/"))

\* the try block of analyzeRepo runs through without throwing
RepoUrlAccepted(url) ==
    /\ url.parses
    /\ url.hostname = "github.com"
    /\ Len(pathParts(url)) >= 2

\* the try block of analyzeProfile runs through without throwing
ProfileUrlAccepted(i, url) ==
    IF i = "part_006"
    THEN /\ url.parses
         /\ Len(pathParts(url)) >= 1
    ELSE /\ url.parses
         /\ url.hostname = "github.com"
         /\ Len(pathParts(url)) >= 1

InvalidRepoUrlMessage(i) ==
    IF i = "part_006"
    THEN "Invalid GitHub repository URL."
    ELSE "Invalid URL format. Please enter a valid GitHub repository URL."

InvalidProfileUrlMessage(i) ==
    IF i = "part_006"
    THEN "Invalid profile URL."
    ELSE "Invalid URL format. Please enter a valid GitHub profile URL."

(***************************************************************************)
(* Upstream responses.  A response is a record                             *)
(*   how    : "networkError" (fetch rejects), "notOk" (res.ok is false),    *)
(*            "unreadable" (res.ok, res.json() rejects), "ok"              *)
(*   status : res.status                                                   *)
(*   body   : the parsed body, by call                                     *)
(***************************************************************************)
NotOkStatuses == {403, 404, 500}

StatusText(status) ==
    CASE status = 403 -> "403"
      [] status = 404 -> "404"
      [] status = 500 -> "500"
      [] OTHER -> "200"

\* messages of the errors the runtime throws, not the service module
FetchRejectedMessage == "Failed to fetch"
JsonRejectedMessage == "Unexpected token < in JSON at position 0"
TypeErrorMessage == "TypeError"

Response(how, status, body) == [how |-> how, status |-> status, body |-> body]

\* the responses without a usable body; none stands for the body
FailureResponses(none) ==
    {Response("networkError", 0, none), Response("unreadable", 200, none)}
        \cup {Response("notOk", st, none) : st \in NotOkStatuses}

\* an entry of the history of responses
Log(call, resp) ==
    [call |-> call, how |-> resp.how, status |-> resp.status, body |-> resp.body]

(***************************************************************************)
(* analyzeRepo: repository details                                         *)
(***************************************************************************)
RepoDetailsError(i, status) ==
    CASE i = "services" ->
           IF status = 404
           THEN "Repository not found. Check the URL or if it's a private repository."
           ELSE "Failed to fetch repository details. GitHub API status: "
                    \o StatusText(status)
      [] i = "part_006" ->
           IF status = 403
           THEN "GitHub Rate Limit Exceeded. Please check your GitHub Token."
           ELSE IF status = 404 THEN "Repository not found."
           ELSE "GitHub API Error: " \o StatusText(status)
      [] i = "HomePage" ->
           IF status = 403
           THEN "GitHub API rate limit exceeded. Please ensure your VITE_GITHUB_TOKEN is set correctly in Netlify."
           ELSE IF status = 404
           THEN "Repository not found. Check the URL or if it's a private repository."
           ELSE "Failed to fetch repository details. GitHub API status: "
                    \o StatusText(status)

(***************************************************************************)
(* analyzeRepo: commit count.  A Link header is a sequence of links        *)
(*   <url?key=value&...>; rel="..."                                        *)
(* each a record [params, rel], params the query parameters in order;      *)
(* NoLinkHeader is headers.get('Link') === null.                           *)
(***************************************************************************)
NoLinkHeader == <<>>

Param(key, value) == [key |-> key, value |-> value]
Link(params, rel) == [params |-> params, rel |-> rel]

\* lastLink.match(/[?&]page=(\d+)/): the first parameter named page
RECURSIVE firstPageParam(_)
firstPageParam(params) ==
    IF params = <<>> THEN 0
    ELSE IF Head(params).key = "page" THEN Head(params).value
    ELSE firstPageParam(Tail(params))

\* linkHeader.split(',').find(s => s.includes('rel="last"')), then the match
RECURSIVE countFromHeaderSplit(_)
countFromHeaderSplit(header) ==
    IF header = <<>> THEN 0
    ELSE IF Head(header).rel = "last" THEN firstPageParam(Head(header).params)
    ELSE countFromHeaderSplit(Tail(header))

\* linkHeader.match(/[?&]page=(\d+)>; rel="last"/): the first link whose
\* closing parameter is page and whose rel is last
RECURSIVE countFromHeaderRegex(_)
countFromHeaderRegex(header) ==
    IF header = <<>> THEN 0
    ELSE LET link == Head(header)
             n == Len(link.params)
         IN IF /\ link.rel = "last"
               /\ n > 0
               /\ link.params[n].key = "page"
            THEN link.params[n].value
            ELSE countFromHeaderRegex(Tail(header))

countFromHeader(i, header) ==
    IF i = "part_006"
    THEN countFromHeaderRegex(header)
    ELSE countFromHeaderSplit(header)

\* the body of the commit listing: [isArray, length]
CommitsBody(isArray, length) == [isArray |-> isArray, length |-> length]

\* CommitCount without Array.isArray: the length of whatever the body is
CommitCountOfAnyBody(i, resp) ==
    IF resp.how # "ok" THEN 0
    ELSE LET fromHeader == countFromHeader(i, resp.body.header)
         IN IF fromHeader > 0 THEN fromHeader
            ELSE resp.body.data.length

\* commitCount after the try/catch around the commit listing
CommitCount(i, resp) ==
    IF resp.how # "ok" THEN 0
    ELSE LET fromHeader == countFromHeader(i, resp.body.header)
         IN IF fromHeader > 0 THEN fromHeader
            ELSE IF resp.body.readable /\ resp.body.data.isArray
                 THEN resp.body.data.length
                 ELSE 0


(***************************************************************************)
(* analyzeRepo: file tree, file contents, AI analysis                      *)
(***************************************************************************)
TreeError(i, status) ==
    IF i = "part_006"
    THEN "Failed to fetch file tree."
    ELSE "Failed to fetch repository file tree. GitHub API status: "
             \o StatusText(status)

NoRepresentativeFilesMessage ==
    "Could not find any representative source code files to analyze in this repository."

\* only part_006 leaves out: if (representativeFilePaths.length === 0) throw
ThrowsOnEmptySample(i) == i # "part_006"

\* treeData.tree, and in part_006 treeData.tree || []
TreeOrEmpty(body) == IF body.hasTree THEN body.tree ELSE <<>>

\* b64Decode(data.content || ''), by the shape of data.content
b64Decode(content) ==
    CASE content = "base64" -> "decoded text"
      [] content = "notBase64" -> ""      \* atob throws, the catch returns ""
      [] content = "absent" -> ""         \* data.content || ''

ErrorContent(i) ==
    IF i = "part_006" THEN "" ELSE "// Error fetching content for ${path}"

\* what the async callback of representativeFilePaths.map returns
FileEntry(i, path, resp) ==
    IF resp.how = "notOk"
    THEN [path |-> path, content |-> ErrorContent(i)]
    ELSE [path |-> path, content |-> b64Decode(resp.body)]

PendingSlot(path) == [state |-> "pending", path |-> path, content |-> ""]
FulfilledSlot(entry) ==
    [state |-> "fulfilled", path |-> entry.path, content |-> entry.content]
RejectedSlot(path) == [state |-> "rejected", path |-> path, content |-> ""]

SlotEntries(slots) ==
    [k \in 1..Len(slots) |-> [path |-> slots[k].path, content |-> slots[k].content]]

AllFulfilled(slots) == \A k \in 1..Len(slots) : slots[k].state = "fulfilled"

AiFailureMessage(i, type) ==
    CASE i = "services" ->
           IF type = "repo"
           THEN "Failed to analyze the repository. The AI model may be temporarily unavailable or returned an unexpected response."
           ELSE "Failed to analyze the profile. The AI model may be temporarily unavailable or returned an unexpected response."
      [] i = "part_006" -> "AI analysis failed. Please check your API key."
      [] i = "HomePage" ->
           IF type = "repo"
           THEN "Failed to analyze the repository. The AI model may be temporarily unavailable."
           ELSE "Failed to analyze the profile. The AI model may be temporarily unavailable."

\* x || d for an array or string field of the parsed AI response
OrDefault(field, default) == IF field.present THEN field.value ELSE default

\* a field of the parsed AI response; an absent field carries the empty
\* value of its type
Present(value) == [present |-> TRUE, value |-> value]
Absent(empty) == [present |-> FALSE, value |-> empty]

\* the object analyzeRepo returns
RepoResult(analysis, count) ==
    [ repoName |-> "owner/repo",
      items |-> OrDefault(analysis.items, <<>>),
      techStack |-> OrDefault(analysis.techStack, <<>>),
      fileStructureSummary |->
          OrDefault(analysis.fileStructureSummary, "No summary generated."),
      commitCount |-> count,
      starRating |-> OrDefault(analysis.starRating, 0) ]

(***************************************************************************)
(* The request as a state machine: one step per resolved await.            *)
(***************************************************************************)
Init ==
    /\ impl \in Impls
    /\ tree = <<>>
    /\ sampled = NotSampled
    /\ singles = 0
    /\ RequestIdle
    /\ ChartIdle
    /\ PageIdle

\* throw out of the async function: the returned promise rejects
Throw(message) ==
    /\ pc' = "done"
    /\ outcome' = "failure"
    /\ error' = message

\* suspend at the next await, having issued its call
Await(call) ==
    /\ pc' = call
    /\ calls' = Append(calls, call)
    /\ UNCHANGED <<outcome, error>>

\* analyzeRepo(repoUrl) up to its first await
AnalyzeRepo(url) ==
    /\ pc = "idle"
    /\ analysisType' = "repo"
    /\ input' = url
    /\ IF RepoUrlAccepted(url)
       THEN Await("repoDetails")
       ELSE Throw(InvalidRepoUrlMessage(impl)) /\ UNCHANGED calls
    /\ UNCHANGED <<impl, pageVars, chartVars, samplerVars, responses, commitCount, fileResult,
                   fileContents, user, repos, contributionData, result>>

\* await fetch(.../repos/owner/repo) and await repoDetailsRes.json() resolve
ResolveRepoDetails(resp) ==
    /\ pc = "repoDetails"
    /\ responses' = Append(responses, Log("repoDetails", resp))
    /\ CASE resp.how = "networkError" ->
              Throw(FetchRejectedMessage) /\ UNCHANGED calls
         [] resp.how = "notOk" ->
              Throw(RepoDetailsError(impl, resp.status)) /\ UNCHANGED calls
         [] resp.how = "unreadable" ->
              Throw(JsonRejectedMessage) /\ UNCHANGED calls
         [] resp.how = "ok" -> Await("commits")
    /\ UNCHANGED <<impl, pageVars, chartVars, samplerVars, analysisType, input, commitCount,
                   fileResult, fileContents, user, repos, contributionData,
                   result>>

\* the try/catch around the commit listing, then the tree fetch is issued
ResolveCommits(resp) ==
    /\ pc = "commits"
    /\ responses' = Append(responses, Log("commits", resp))
    /\ commitCount' = CommitCount(impl, resp)
    /\ Await("tree")
    /\ UNCHANGED <<impl, pageVars, chartVars, samplerVars, analysisType, input, fileResult,
                   fileContents, user, repos, contributionData, result>>

\* the tree fetch resolves; the sampler runs; the content fetches are issued
ResolveTree(resp) ==
    /\ pc = "tree"
    /\ responses' = Append(responses, Log("tree", resp))
    /\ CASE resp.how = "networkError" ->
              /\ Throw(FetchRejectedMessage)
              /\ UNCHANGED <<calls, tree, sampled, fileResult, fileContents>>
         [] resp.how = "notOk" ->
              /\ Throw(TreeError(impl, resp.status))
              /\ UNCHANGED <<calls, tree, sampled, fileResult, fileContents>>
         [] resp.how = "unreadable" ->
              /\ Throw(JsonRejectedMessage)
              /\ UNCHANGED <<calls, tree, sampled, fileResult, fileContents>>
         [] resp.how = "ok" /\ ~resp.body.hasTree /\ impl # "part_006" ->
              \* selectRepresentativeFiles(undefined): files.filter throws
              /\ Throw(TypeErrorMessage)
              /\ UNCHANGED <<calls, tree, sampled, fileResult, fileContents>>
         [] OTHER ->
              LET allFiles == TreeOrEmpty(resp.body)
                  paths == selectRepresentativeFiles(impl, allFiles)
                  n == Len(paths)
              IN /\ tree' = allFiles
                 /\ sampled' = paths
                 /\ IF n = 0 /\ ThrowsOnEmptySample(impl)
                    THEN /\ Throw(NoRepresentativeFilesMessage)
                         /\ UNCHANGED <<calls, fileResult, fileContents>>
                    ELSE IF n = 0
                    THEN \* Promise.all([]) resolves to []
                         /\ fileContents' = <<>>
                         /\ Await("ai")
                         /\ UNCHANGED fileResult
                    ELSE /\ fileResult' = [k \in 1..n |-> PendingSlot(paths[k])]
                         /\ pc' = "contents"
                         /\ calls' = calls \o [k \in 1..n |-> "content"]
                         /\ UNCHANGED <<outcome, error, fileContents>>
    /\ UNCHANGED <<impl, pageVars, chartVars, singles, analysisType, input, commitCount, user,
                   repos, contributionData, result>>

\* one content fetch resolves; Promise.all rejects with the first rejection
\* and resolves when the last callback has returned
ResolveContent(k, resp) ==
    /\ pc \in {"contents", "done"}
    /\ k \in 1..Len(fileResult)
    /\ fileResult[k].state = "pending"
    /\ responses' = Append(responses, Log("content", resp))
    /\ IF resp.how \in {"networkError", "unreadable"}
       THEN /\ fileResult' = [fileResult EXCEPT ![k] = RejectedSlot(sampled[k])]
            /\ UNCHANGED fileContents
            /\ IF pc = "contents"
               THEN /\ Throw(IF resp.how = "networkError"
                             THEN FetchRejectedMessage
                             ELSE JsonRejectedMessage)
                    /\ UNCHANGED calls
               ELSE UNCHANGED <<pc, calls, outcome, error>>
       ELSE LET slots == [fileResult EXCEPT
                             ![k] = FulfilledSlot(FileEntry(impl, sampled[k], resp))]
            IN /\ fileResult' = slots
               /\ IF pc = "contents" /\ AllFulfilled(slots)
                  THEN /\ fileContents' = SlotEntries(slots)
                       /\ Await("ai")
                  ELSE UNCHANGED <<pc, calls, outcome, error, fileContents>>
    /\ UNCHANGED <<impl, pageVars, chartVars, samplerVars, analysisType, input, commitCount, user,
                   repos, contributionData, result>>

\* ResolveRepoAI with one more attempt after a failed one
ResolveRepoAIWithRetry(resp) ==
    /\ pc = "ai"
    /\ analysisType = "repo"
    /\ responses' = Append(responses, Log("ai", resp))
    /\ IF resp.how = "ok"
       THEN /\ result' = RepoResult(resp.body, commitCount)
            /\ pc' = "done"
            /\ outcome' = "success"
            /\ UNCHANGED <<error, calls>>
       ELSE IF calls[Len(calls)] = "ai" /\ calls[Len(calls) - 1] # "ai"
       THEN Await("ai") /\ UNCHANGED result
       ELSE Throw(AiFailureMessage(impl, "repo")) /\ UNCHANGED <<result, calls>>
    /\ UNCHANGED <<impl, pageVars, chartVars, samplerVars, analysisType, input, commitCount,
                   fileResult, fileContents, user, repos, contributionData>>

\* generateContent and JSON.parse inside the final try/catch of analyzeRepo
ResolveRepoAI(resp) ==
    /\ pc = "ai"
    /\ analysisType = "repo"
    /\ responses' = Append(responses, Log("ai", resp))
    /\ IF resp.how = "ok"
       THEN /\ result' = RepoResult(resp.body, commitCount)
            /\ pc' = "done"
            /\ outcome' = "success"
            /\ UNCHANGED error
       ELSE /\ Throw(AiFailureMessage(impl, "repo"))
            /\ UNCHANGED result
    /\ UNCHANGED <<impl, pageVars, chartVars, samplerVars, analysisType, input, calls, commitCount,
                   fileResult, fileContents, user, repos, contributionData>>


(***************************************************************************)
(* analyzeProfile                                                          *)
(***************************************************************************)
UserError(i, status) ==
    CASE i = "services" ->
           IF status = 404 THEN "User not found. Check the username."
           ELSE "Failed to fetch user details. GitHub API status: "
                    \o StatusText(status)
      [] i = "part_006" -> "User not found or Rate Limit exceeded."
      [] i = "HomePage" ->
           IF status = 403
           THEN "Rate limit exceeded. Please check your GitHub Token in Netlify."
           ELSE IF status = 404 THEN "User not found. Check the username."
           ELSE "Failed to fetch user details. GitHub API status: "
                    \o StatusText(status)

ReposError(status) ==
    "Failed to fetch repositories. GitHub API status: " \o StatusText(status)

\* only the copy in services/ has no contribution feed
FetchesContributions(i) == i # "services"

\* nonForks without the filter: forks stay in the list
nonForksAndForks(rs) == rs

\* repos.filter(r => !r.fork)
nonForks(rs) == SelectSeq(rs, LAMBDA r : ~r.fork)

RECURSIVE sumStars(_)
sumStars(rs) ==
    IF rs = <<>> THEN 0
    ELSE Head(rs).stargazers_count + sumStars(Tail(rs))

\* languageDistribution without if (repo.language): null is counted as a key
languageDistributionWithNull(rs) ==
    LET langs == {rs[k].language : k \in 1..Len(rs)}
    IN [l \in langs |-> Cardinality({k \in 1..Len(rs) : rs[k].language = l})]

\* the languageDistribution object: a count per language that is not null
languageDistribution(rs) ==
    LET langs == {rs[k].language : k \in {j \in 1..Len(rs) : rs[j].language # ""}}
    IN [l \in langs |-> Cardinality({k \in 1..Len(rs) : rs[k].language = l})]

\* [...].sort((a, b) => b.stargazers_count - a.stargazers_count), a stable sort
\* insertByStars putting a repository before those with as many stars
RECURSIVE insertByStarsBeforeEqual(_, _)
insertByStarsBeforeEqual(sorted, r) ==
    IF sorted = <<>> THEN <<r>>
    ELSE IF Head(sorted).stargazers_count > r.stargazers_count
         THEN <<Head(sorted)>> \o insertByStarsBeforeEqual(Tail(sorted), r)
         ELSE <<r>> \o sorted

RECURSIVE insertByStars(_, _)
insertByStars(sorted, r) ==
    IF sorted = <<>> THEN <<r>>
    ELSE IF Head(sorted).stargazers_count >= r.stargazers_count
         THEN <<Head(sorted)>> \o insertByStars(Tail(sorted), r)
         ELSE <<r>> \o sorted

RECURSIVE sortByStars(_)
sortByStars(rs) ==
    IF rs = <<>> THEN <<>>
    ELSE insertByStars(sortByStars(SubSeq(rs, 1, Len(rs) - 1)), rs[Len(rs)])

TopReposLimit == 10

topReposPreAnalysis(rs) ==
    LET top == sliceFirst(sortByStars(rs), TopReposLimit)
    IN [k \in 1..Len(top) |->
           [name |-> top[k].full_name, stars |-> top[k].stargazers_count,
            language |-> top[k].language]]

DefaultPitch(i) ==
    IF i = "part_006" THEN "Cool project" ELSE "An interesting project."
DefaultQualityScoreServices == 60
DefaultQualityScorePart006 == 80
DefaultQualityScore(i) ==
    IF i = "part_006" THEN DefaultQualityScorePart006
    ELSE DefaultQualityScoreServices

\* analysis.topRepos.find(r => r.name === name): index of the first match, or 0
RECURSIVE findByName(_, _, _)
findByName(aiRepos, name, k) ==
    IF k > Len(aiRepos) THEN 0
    ELSE IF aiRepos[k].name = name THEN k
    ELSE findByName(aiRepos, name, k + 1)

\* one element of topRepos: the ground truth with pitch and qualityScore
mergeRepo(i, repo, aiRepos) ==
    LET k == findByName(aiRepos, repo.name, 1)
    IN [ name |-> repo.name, stars |-> repo.stars, language |-> repo.language,
         pitch |-> IF k > 0 /\ aiRepos[k].pitch # ""
                   THEN aiRepos[k].pitch ELSE DefaultPitch(i),
         qualityScore |-> IF k > 0 /\ aiRepos[k].qualityScore # 0
                          THEN aiRepos[k].qualityScore
                          ELSE DefaultQualityScore(i) ]

mergeTopRepos(i, pre, aiRepos) ==
    [k \in 1..Len(pre) |-> mergeRepo(i, pre[k], aiRepos)]

\* the merge throws a TypeError, which the catch around the AI call turns
\* into the AI failure: analysis.topRepos is missing (not in part_006, which
\* reads it with ?.) or is no array, and there is a repository to merge
MergeThrows(i, pre, topReposField) ==
    /\ Len(pre) > 0
    /\ \/ ~topReposField.present /\ i # "part_006"
       \/ topReposField.present /\ ~topReposField.isArray

AiTopRepos(topReposField) ==
    IF topReposField.present /\ topReposField.isArray
    THEN topReposField.value ELSE <<>>

RECURSIVE sumCounts(_)
sumCounts(days) ==
    IF days = <<>> THEN 0 ELSE Head(days).count + sumCounts(Tail(days))

\* contributionData.reduce(...) throws on anything but an array
BadgesThrow(i, contributions) ==
    FetchesContributions(i) /\ contributions.type # "array"

ALL_BADGES ==
    <<"POLYGLOT", "STAR_GAZER", "COMMIT_MACHINE", "PERFECT_README",
      "COMMUNITY_BUILDER", "TOP_10_PERCENT">>

\* badgeEarned with STAR_GAZER and COMMUNITY_BUILDER asking for more than
\* 150 stars and more than 30 forks
badgeEarnedAboveScenario(i, id, usr, rs, topRepos, contributions, analysis) ==
    CASE id = "POLYGLOT" ->
           Cardinality(DOMAIN languageDistribution(rs)) >= 5
      [] id = "STAR_GAZER" ->
           \E k \in 1..Len(rs) : rs[k].stargazers_count > 150
      [] id = "COMMIT_MACHINE" ->
           IF FetchesContributions(i)
           THEN sumCounts(contributions.items) > 500
           ELSE usr.public_repos > 50
      [] id = "PERFECT_README" ->
           \E k \in 1..Len(topRepos) : topRepos[k].qualityScore >= 90
      [] id = "COMMUNITY_BUILDER" ->
           \E k \in 1..Len(rs) : rs[k].forks_count > 30
      [] id = "TOP_10_PERCENT" ->
           analysis.healthScore.present /\ analysis.healthScore.value >= 90

badgeEarned(i, id, usr, rs, topRepos, contributions, analysis) ==
    CASE id = "POLYGLOT" ->
           Cardinality(DOMAIN languageDistribution(rs)) >= 5
      [] id = "STAR_GAZER" ->
           \E k \in 1..Len(rs) : rs[k].stargazers_count >= 100
      [] id = "COMMIT_MACHINE" ->
           IF FetchesContributions(i)
           THEN sumCounts(contributions.items) > 500
           ELSE usr.public_repos > 50
      [] id = "PERFECT_README" ->
           \E k \in 1..Len(topRepos) : topRepos[k].qualityScore >= 90
      [] id = "COMMUNITY_BUILDER" ->
           \E k \in 1..Len(rs) : rs[k].forks_count >= 25
      [] id = "TOP_10_PERCENT" ->
           analysis.healthScore.present /\ analysis.healthScore.value >= 90

\* earnedBadges keeping only the badges that are earned
earnedBadgesOnly(i, usr, rs, topRepos, contributions, analysis) ==
    SelectSeq([k \in 1..Len(ALL_BADGES) |->
                  [id |-> ALL_BADGES[k],
                   earned |-> badgeEarned(i, ALL_BADGES[k], usr, rs, topRepos,
                                          contributions, analysis)]],
              LAMBDA badge : badge.earned)

earnedBadges(i, usr, rs, topRepos, contributions, analysis) ==
    [k \in 1..Len(ALL_BADGES) |->
        [id |-> ALL_BADGES[k],
         earned |-> badgeEarned(i, ALL_BADGES[k], usr, rs, topRepos,
                                contributions, analysis)]]

DefaultHealthScoreServices == 0
DefaultHealthScorePart006 == 50
DefaultHealthScore(i) ==
    IF i = "part_006" THEN DefaultHealthScorePart006
    ELSE DefaultHealthScoreServices

\* analysis.healthScore || default
healthScoreOrDefault(i, analysis) ==
    IF analysis.healthScore.present /\ analysis.healthScore.value # 0
    THEN analysis.healthScore.value ELSE DefaultHealthScore(i)

\* the object analyzeProfile returns
ProfileResult(i, usr, rs, contributions, analysis) ==
    LET topRepos == mergeTopRepos(i, topReposPreAnalysis(rs),
                                  AiTopRepos(analysis.topRepos))
    IN [ login |-> usr.login,
         publicRepoCount |-> usr.public_repos,
         totalStars |-> sumStars(rs),
         topRepos |-> topRepos,
         languageDistribution |-> languageDistribution(rs),
         profileSummary |->
             OrDefault(analysis.profileSummary,
                       IF i = "part_006" THEN "No summary"
                       ELSE "No summary generated."),
         starRating |-> OrDefault(analysis.starRating, 0),
         mainExpertise |-> OrDefault(analysis.mainExpertise, <<>>),
         healthScore |-> healthScoreOrDefault(i, analysis),
         badges |-> earnedBadges(i, usr, rs, topRepos, contributions, analysis),
         suggestions |-> OrDefault(analysis.suggestions, <<>>),
         contributionData |->
             IF FetchesContributions(i) THEN contributions ELSE JsUndefined ]


\* analyzeProfile(profileUrl) up to its first await
AnalyzeProfile(url) ==
    /\ pc = "idle"
    /\ analysisType' = "profile"
    /\ input' = url
    /\ IF ProfileUrlAccepted(impl, url)
       THEN Await("user")
       ELSE Throw(InvalidProfileUrlMessage(impl)) /\ UNCHANGED calls
    /\ UNCHANGED <<impl, pageVars, chartVars, samplerVars, responses, commitCount, fileResult,
                   fileContents, user, repos, contributionData, result>>

\* ResolveUser without if (!userRes.ok): a non-OK answer is read as the user
ResolveUserWithoutOkTest(resp) ==
    /\ pc = "user"
    /\ responses' = Append(responses, Log("user", resp))
    /\ CASE resp.how = "networkError" ->
              Throw(FetchRejectedMessage) /\ UNCHANGED <<calls, user>>
         [] resp.how = "unreadable" ->
              Throw(JsonRejectedMessage) /\ UNCHANGED <<calls, user>>
         [] resp.how \in {"ok", "notOk"} ->
              /\ user' = resp.body
              /\ Await("repos")
    /\ UNCHANGED <<impl, pageVars, chartVars, samplerVars, analysisType, input, commitCount,
                   fileResult, fileContents, repos, contributionData, result>>

\* await fetch(.../users/username) and await userRes.json() resolve
ResolveUser(resp) ==
    /\ pc = "user"
    /\ responses' = Append(responses, Log("user", resp))
    /\ CASE resp.how = "networkError" ->
              Throw(FetchRejectedMessage) /\ UNCHANGED <<calls, user>>
         [] resp.how = "notOk" ->
              Throw(UserError(impl, resp.status)) /\ UNCHANGED <<calls, user>>
         [] resp.how = "unreadable" ->
              Throw(JsonRejectedMessage) /\ UNCHANGED <<calls, user>>
         [] resp.how = "ok" ->
              /\ user' = resp.body
              /\ Await("repos")
    /\ UNCHANGED <<impl, pageVars, chartVars, samplerVars, analysisType, input, commitCount,
                   fileResult, fileContents, repos, contributionData, result>>

\* after the repository list: the contribution feed where there is one,
\* the AI call otherwise
AwaitAfterRepos ==
    IF FetchesContributions(impl) THEN Await("contributions") ELSE Await("ai")

\* await fetch(.../users/username/repos) and await reposRes.json() resolve
ResolveRepos(resp) ==
    /\ pc = "repos"
    /\ responses' = Append(responses, Log("repos", resp))
    /\ CASE resp.how = "networkError" ->
              Throw(FetchRejectedMessage) /\ UNCHANGED <<calls, repos>>
         [] resp.how = "unreadable" ->
              Throw(JsonRejectedMessage) /\ UNCHANGED <<calls, repos>>
         [] resp.how = "notOk" /\ impl # "part_006" ->
              Throw(ReposError(resp.status)) /\ UNCHANGED <<calls, repos>>
         [] resp.how = "ok" /\ resp.body.type # "array" /\ impl # "part_006" ->
              \* (await reposRes.json()).filter is not a function
              Throw(TypeErrorMessage) /\ UNCHANGED <<calls, repos>>
         [] OTHER ->
              \* part_006: Array.isArray(repos) ? repos.filter(...) : []
              /\ repos' = IF resp.body.type = "array"
                          THEN nonForks(resp.body.items) ELSE <<>>
              /\ AwaitAfterRepos
    /\ UNCHANGED <<impl, pageVars, chartVars, samplerVars, analysisType, input, commitCount,
                   fileResult, fileContents, user, contributionData, result>>

\* data.contributions || [] and contribs.contributions, by the body's shape:
\* the body is [isObject, hasContributions, contributions]
ContributionsOf(body) ==
    IF body.hasContributions THEN body.contributions ELSE JsArray(<<>>)

\* the contribution feed resolves: inside a try/catch in part_006, outside
\* any in the HomePage copy
ResolveContributions(resp) ==
    /\ pc = "contributions"
    /\ responses' = Append(responses, Log("contributions", resp))
    /\ CASE resp.how = "notOk" ->
              contributionData' = JsArray(<<>>) /\ Await("ai")
         [] resp.how = "networkError" /\ impl = "part_006" ->
              contributionData' = JsArray(<<>>) /\ Await("ai")
         [] resp.how = "networkError" /\ impl # "part_006" ->
              /\ Throw(FetchRejectedMessage)
              /\ UNCHANGED <<calls, contributionData>>
         [] resp.how = "unreadable" /\ impl = "part_006" ->
              contributionData' = JsArray(<<>>) /\ Await("ai")
         [] resp.how = "unreadable" /\ impl # "part_006" ->
              /\ Throw(JsonRejectedMessage)
              /\ UNCHANGED <<calls, contributionData>>
         [] resp.how = "ok" /\ ~resp.body.isObject /\ impl = "part_006" ->
              \* data is null: data.contributions throws, the catch swallows it
              contributionData' = JsArray(<<>>) /\ Await("ai")
         [] resp.how = "ok" /\ ~resp.body.isObject /\ impl # "part_006" ->
              /\ Throw(TypeErrorMessage)
              /\ UNCHANGED <<calls, contributionData>>
         [] resp.how = "ok" /\ resp.body.isObject ->
              contributionData' = ContributionsOf(resp.body) /\ Await("ai")
    /\ UNCHANGED <<impl, pageVars, chartVars, samplerVars, analysisType, input, commitCount,
                   fileResult, fileContents, user, repos, result>>

\* generateContent, JSON.parse, the merge and the badges inside the final
\* try/catch of analyzeProfile
ResolveProfileAI(resp) ==
    /\ pc = "ai"
    /\ analysisType = "profile"
    /\ responses' = Append(responses, Log("ai", resp))
    /\ IF /\ resp.how = "ok"
          /\ ~MergeThrows(impl, topReposPreAnalysis(repos), resp.body.topRepos)
          /\ ~BadgesThrow(impl, contributionData)
       THEN /\ result' = ProfileResult(impl, user, repos, contributionData,
                                       resp.body)
            /\ pc' = "done"
            /\ outcome' = "success"
            /\ UNCHANGED error
       ELSE /\ Throw(AiFailureMessage(impl, "profile"))
            /\ UNCHANGED result
    /\ UNCHANGED <<impl, pageVars, chartVars, samplerVars, analysisType, input, calls, commitCount,
                   fileResult, fileContents, user, repos, contributionData>>


(***************************************************************************)
(* The inputs and upstream responses the requests are run on.              *)
(***************************************************************************)
Url(parses, hostname, pathname) ==
    [parses |-> parses, hostname |-> hostname, pathname |-> pathname]

Urls ==
    { Url(FALSE, "", <<>>),                                \* not a URL
      Url(TRUE, "github.com", <<"/">>),                    \* https://github.com/
      Url(TRUE, "github.com", <<"/", "o">>),               \* https://github.com/o
      Url(TRUE, "github.com", <<"/", "o", "/">>),          \* https://github.com/o/
      Url(TRUE, "github.com", <<"/", "o", "/", "r">>),     \* https://github.com/o/r
      Url(TRUE, "gitlab.com", <<"/", "o", "/", "r">>),     \* https://gitlab.com/o/r
      Url(TRUE, "gitlab.com", <<"/">>) }                   \* https://gitlab.com/

RepoDetailsResponses ==
    FailureResponses("none") \cup {Response("ok", 200, "repoDetails")}

\* <...?per_page=1&page=2>; rel="next", <...?per_page=1&page=n>; rel="last"
PagedHeader(n) ==
    << Link(<<Param("per_page", 1), Param("page", 2)>>, "next"),
       Link(<<Param("per_page", 1), Param("page", n)>>, "last") >>

LinkHeaders ==
    { NoLinkHeader,
      PagedHeader(42),
      PagedHeader(0),
      \* <...?page=42&per_page=1>; rel="last"
      << Link(<<Param("page", 42), Param("per_page", 1)>>, "last") >>,
      \* <...?per_page=1&page=2>; rel="next"
      << Link(<<Param("per_page", 1), Param("page", 2)>>, "next") >>,
      \* <...?per_page=1>; rel="last"
      << Link(<<Param("per_page", 1)>>, "last") >> }

NoCommitsBody ==
    [header |-> NoLinkHeader, readable |-> FALSE, data |-> CommitsBody(FALSE, 0)]

CommitsResponses ==
    { Response("networkError", 0, NoCommitsBody) }
        \cup { Response("notOk", st, NoCommitsBody) : st \in {409, 500} }
        \cup { Response("ok", 200,
                        [header |-> h, readable |-> TRUE, data |-> CommitsBody(a, n)]) :
                 h \in LinkHeaders, a \in BOOLEAN, n \in 0..1 }
        \cup { Response("ok", 200,
                        [header |-> h, readable |-> FALSE,
                         data |-> CommitsBody(FALSE, 0)]) : h \in LinkHeaders }

Trees ==
    { <<>>,
      << MakeEntry("notSource", 1), MakeEntry("excludedTop", 2) >>,
      << MakeEntry("source", 1) >>,
      << MakeEntry("excludedTop", 1), MakeEntry("source", 2),
         MakeEntry("subtree", 3), MakeEntry("lookalikeDir", 4) >> }

TreeResponses ==
    FailureResponses([hasTree |-> FALSE, tree |-> <<>>])
        \cup { Response("ok", 200, [hasTree |-> TRUE, tree |-> t]) : t \in Trees }
        \cup { Response("ok", 200, [hasTree |-> FALSE, tree |-> <<>>]) }

ContentResponses ==
    FailureResponses("absent")
        \cup { Response("ok", 200, c) : c \in {"base64", "notBase64", "absent"} }

\* the parsed response {} : every field missing
NoRepoAnalysis ==
    [ items |-> Absent(<<>>), techStack |-> Absent(<<>>),
      fileStructureSummary |-> Absent(""), starRating |-> Absent(0) ]

RepoAnalyses ==
    { [ items |-> Present(<< [name |-> "analyzeRepo", type |-> "Function",
                              path |-> "services/githubService.ts"] >>),
        techStack |-> Present(<<"TypeScript">>),
        fileStructureSummary |-> Present("A React application."),
        starRating |-> Present(4) ],
      \* an answer listing 21 items
      [ items |-> Present([k \in 1..21 |->
                              [name |-> "handler", type |-> "Function",
                               path |-> "src/handlers.ts"]]),
        techStack |-> Present(<<"TypeScript">>),
        fileStructureSummary |-> Present("A React application."),
        starRating |-> Present(4) ],
      NoRepoAnalysis }

\* the provider call rejects, or its text is no JSON
AiFailures(none) ==
    { Response("providerError", 0, none), Response("unparseable", 200, none) }

RepoAiResponses ==
    AiFailures(NoRepoAnalysis) \cup { Response("ok", 200, a) : a \in RepoAnalyses }

Users ==
    { [login |-> "octocat", public_repos |-> 8],
      [login |-> "octocat", public_repos |-> 51] }

UserResponses ==
    FailureResponses([login |-> "", public_repos |-> 0]) \cup { Response("ok", 200, u) : u \in Users }

Repo(name, fork, stars, forks, language) ==
    [ full_name |-> name, fork |-> fork, stargazers_count |-> stars,
      forks_count |-> forks, language |-> language ]

\* four declared languages among the repositories that are no forks, a fifth
\* on a fork, and a repository without a language
FourLanguages ==
    << Repo("octocat/a", FALSE, 5, 0, "Go"),
       Repo("octocat/fork", TRUE, 900, 40, "C"),
       Repo("octocat/b", FALSE, 150, 30, "TypeScript"),
       Repo("octocat/c", FALSE, 5, 1, ""),
       Repo("octocat/d", FALSE, 7, 0, "Rust"),
       Repo("octocat/e", FALSE, 0, 0, "Python"),
       Repo("octocat/f", FALSE, 3, 0, "Go") >>

FiveLanguages == Append(FourLanguages, Repo("octocat/g", FALSE, 2, 0, "Java"))

SixLanguages == Append(FiveLanguages, Repo("octocat/h", FALSE, 1, 0, "Ruby"))

\* more repositories than the top list holds, with equal star counts on both
\* sides of the cut and a fork that has the most stars
ManyRepos ==
    << Repo("octocat/r01", FALSE, 3, 0, "Go"),
       Repo("octocat/r02", FALSE, 9, 0, "Go"),
       Repo("octocat/r03", FALSE, 3, 0, "C"),
       Repo("octocat/r04", TRUE, 999, 0, "C"),
       Repo("octocat/r05", FALSE, 1, 0, "Go"),
       Repo("octocat/r06", FALSE, 9, 0, ""),
       Repo("octocat/r07", FALSE, 1, 0, "Go"),
       Repo("octocat/r08", FALSE, 4, 0, "Go"),
       Repo("octocat/r09", FALSE, 1, 0, "C"),
       Repo("octocat/r10", FALSE, 5, 0, "Go"),
       Repo("octocat/r11", FALSE, 1, 0, "Go"),
       Repo("octocat/r12", FALSE, 2, 0, "Go"),
       Repo("octocat/r13", FALSE, 1, 0, "Go") >>

RepoLists ==
    { <<>>,
      << Repo("octocat/a", FALSE, 5, 0, "Go"),
         Repo("octocat/fork", TRUE, 900, 40, "C"),
         Repo("octocat/b", FALSE, 150, 30, "TypeScript"),
         Repo("octocat/c", FALSE, 5, 1, "") >>,
      FourLanguages, FiveLanguages, SixLanguages, ManyRepos }

ReposResponses ==
    { Response("networkError", 0, JsObject), Response("unreadable", 200, JsObject) }
        \cup { Response("notOk", st, JsObject) : st \in NotOkStatuses }
        \cup { Response("ok", 200, JsArray(rs)) : rs \in RepoLists }
        \cup { Response("ok", 200, JsObject) }

Day(date, count, level) == [date |-> date, count |-> count, level |-> level]

ContributionLists ==
    { <<>>,
      << Day("2025-01-01", 500, 4) >>,
      << Day("2025-01-01", 500, 4), Day("2025-01-02", 1, 1) >> }

ContributionsBody(isObject, hasContributions, contributions) ==
    [ isObject |-> isObject, hasContributions |-> hasContributions,
      contributions |-> contributions ]

ContributionsResponses ==
    FailureResponses(ContributionsBody(FALSE, FALSE, JsUndefined))
        \cup { Response("ok", 200, ContributionsBody(TRUE, TRUE, JsArray(ds))) :
                 ds \in ContributionLists }
        \cup { Response("ok", 200, ContributionsBody(TRUE, FALSE, JsUndefined)),
               Response("ok", 200, ContributionsBody(TRUE, TRUE, JsObject)),
               Response("ok", 200, ContributionsBody(FALSE, FALSE, JsUndefined)) }

TopReposField(present, isArray, value) ==
    [present |-> present, isArray |-> isArray, value |-> value]

\* the parsed response {} : every field missing
NoProfileAnalysis ==
    [ profileSummary |-> Absent(""), starRating |-> Absent(0),
      mainExpertise |-> Absent(<<>>), healthScore |-> Absent(0),
      suggestions |-> Absent(<<>>),
      topRepos |-> TopReposField(FALSE, FALSE, <<>>) ]

ProfileAnalyses ==
    { [ profileSummary |-> Present("A prolific developer."),
        starRating |-> Present(4),
        mainExpertise |-> Present(<<"TypeScript">>),
        healthScore |-> Present(92),
        suggestions |-> Present(<<"Pin your best repositories.">>),
        topRepos |-> TopReposField(TRUE, TRUE,
            << [name |-> "octocat/b", pitch |-> "A fast parser.",
                qualityScore |-> 95] >>) ],
      NoProfileAnalysis,
      \* an answer with healthScore 150
      [ profileSummary |-> Present("A prolific developer."),
        starRating |-> Present(5),
        mainExpertise |-> Present(<<"TypeScript">>),
        healthScore |-> Present(150),
        suggestions |-> Present(<<>>),
        topRepos |-> TopReposField(TRUE, TRUE, <<>>) ],
      [ profileSummary |-> Present("A prolific developer."),
        starRating |-> Present(4),
        mainExpertise |-> Present(<<"TypeScript">>),
        healthScore |-> Present(40),
        suggestions |-> Present(<<>>),
        topRepos |-> TopReposField(TRUE, FALSE, <<>>) ] }

ProfileAiResponses ==
    AiFailures(NoProfileAnalysis) \cup { Response("ok", 200, a) : a \in ProfileAnalyses }

Next ==
    \/ \E url \in Urls : AnalyzeRepo(url)
    \/ \E resp \in RepoDetailsResponses : ResolveRepoDetails(resp)
    \/ \E resp \in CommitsResponses : ResolveCommits(resp)
    \/ \E resp \in TreeResponses : ResolveTree(resp)
    \/ \E k \in 1..Len(fileResult), resp \in ContentResponses :
           ResolveContent(k, resp)
    \/ \E resp \in RepoAiResponses : ResolveRepoAI(resp)
    \/ \E url \in Urls : AnalyzeProfile(url)
    \/ \E resp \in UserResponses : ResolveUser(resp)
    \/ \E resp \in ReposResponses : ResolveRepos(resp)
    \/ \E resp \in ContributionsResponses : ResolveContributions(resp)
    \/ \E resp \in ProfileAiResponses : ResolveProfileAI(resp)

Spec == Init /\ [][Next]_vars


(***************************************************************************)
(* Vocabulary of the properties                                            *)
(***************************************************************************)
\* the calls issued so far, as a set
Issued == {calls[k] : k \in 1..Len(calls)}


\* the directories a path lies under: every segment but the last
UnderExcludedDirectory(path) ==
    LET segments == split(path, "/")
    IN \E k \in 1..(Len(segments) - 1) : segments[k] \in EXCLUDED_DIRS

EndsInSourceExtension(path) ==
    \E ext \in SOURCE_EXTENSIONS : endsWith(path, ext)

IsMinified(path) ==
    \E ext \in SOURCE_EXTENSIONS : endsWith(path, <<".", "m", "i", "n">> \o ext)

\* an entry the sampler is meant to keep
Qualifies(file) ==
    /\ file.type = "blob"
    /\ EndsInSourceExtension(file.path)
    /\ ~IsMinified(file.path)
    /\ ~UnderExcludedDirectory(file.path)

\* the paths of the first n qualifying entries, in tree order
RECURSIVE FirstQualifying(_, _)
FirstQualifying(files, n) ==
    IF files = <<>> \/ n = 0 THEN <<>>
    ELSE IF Qualifies(Head(files))
         THEN <<Head(files).path>> \o FirstQualifying(Tail(files), n - 1)
         ELSE FirstQualifying(Tail(files), n)

HasSampled == sampled # NotSampled

\* C1: selectRepresentativeFiles returns at most 15 paths, each the path of
\* a blob entry of the tree that ends in an allow-listed extension and has no
\* excluded directory name among its directory segments.
C1_SampleWithinLimitAndFilter ==
    HasSampled =>
        /\ Len(sampled) <= 15
        /\ \A k \in 1..Len(sampled) :
              /\ \E j \in 1..Len(tree) :
                    tree[j].path = sampled[k] /\ tree[j].type = "blob"
              /\ EndsInSourceExtension(sampled[k])
              /\ ~UnderExcludedDirectory(sampled[k])

\* the limit is reached on a tree that also holds a file under test/ and a
\* file under latest/, and the latter is sampled
C1_Witness ==
    /\ HasSampled
    /\ Len(sampled) = 15
    /\ \E j \in 1..Len(tree) : startsWith(tree[j].path, <<"t", "e", "s", "t", "/">>)
    /\ \E k \in 1..Len(sampled) :
          startsWith(sampled[k], <<"l", "a", "t", "e", "s", "t", "/">>)

\* C2: selectRepresentativeFiles returns exactly the first min(15, q)
\* qualifying paths of the tree, in tree order.
C2_FirstFifteenQualifying ==
    HasSampled => sampled = FirstQualifying(tree, 15)


\* C3: in analyzeRepo an empty sample ends the request in failure with the
\* "no representative files" condition, and neither a content fetch nor the
\* AI call is issued.
C3_EmptySampleFails ==
    (analysisType = "repo" /\ sampled = <<>>) =>
        /\ outcome = "failure"
        /\ error = NoRepresentativeFilesMessage
        /\ "content" \notin Issued
        /\ "ai" \notin Issued

\* the non-empty segments of a pathname
Segments(pathname) ==
    SelectSeq(split(pathname, "/"), LAMBDA part : part # <<>>)

\* a URL of github.com with enough path segments for the analysis asked for
WellFormedInput(type, url) ==
    /\ url.parses
    /\ url.hostname = "github.com"
    /\ Len(Segments(url.pathname)) >= (IF type = "repo" THEN 2 ELSE 1)

\* C4: in analyzeRepo and in analyzeProfile an input that is no URL, has a
\* host other than github.com or has too few path segments ends the request
\* in the invalid-input failure before any upstream call is issued.
C4_InvalidInputFailsFast ==
    (pc # "idle" /\ ~WellFormedInput(analysisType, input)) =>
        /\ outcome = "failure"
        /\ error \in {InvalidRepoUrlMessage(impl), InvalidProfileUrlMessage(impl)}
        /\ calls = <<>>

\* the first call of a request is its existence call, and it has failed
ExistenceCallFailed ==
    /\ Len(responses) >= 1
    /\ responses[1].call \in {"repoDetails", "user"}
    /\ responses[1].how # "ok"

\* C5: once the repository-metadata or user-metadata call has failed, the
\* request is in terminal failure and the existence call is the only call it
\* has issued or will issue.
C5_ExistenceFailureAborts ==
    ExistenceCallFailed =>
        /\ pc = "done"
        /\ outcome = "failure"
        /\ calls = <<responses[1].call>>
        /\ Len(responses) = 1

\* the user-metadata call answered 404 and the profile analysis has aborted
C5_Witness ==
    /\ ExistenceCallFailed
    /\ analysisType = "profile"
    /\ responses[1].how = "notOk"
    /\ responses[1].status = 404
    /\ outcome = "failure"

\* the message the request surfaces when its existence call answers 404
NotFoundMessage ==
    IF analysisType = "repo"
    THEN RepoDetailsError(impl, 404)
    ELSE UserError(impl, 404)

\* C6: on the repository-metadata and user-metadata calls the failure
\* surfaced for a 403 response is never the message surfaced for a 404.
C6_RateLimitedDistinctFromNotFound ==
    ( /\ ExistenceCallFailed
      /\ responses[1].how = "notOk"
      /\ responses[1].status = 403 ) =>
        error # NotFoundMessage

\* every content fetch of the request has been answered
ContentsAnswered ==
    /\ analysisType = "repo"
    /\ Len(fileResult) > 0
    /\ \A k \in 1..Len(fileResult) : fileResult[k].state # "pending"

\* C7: whichever content fetches fail (non-OK, transport failure, unreadable
\* body), analyzeRepo proceeds to the AI call with one entry per sampled
\* path, in the order of the sample.
C7_ContentFailuresDegrade ==
    ContentsAnswered =>
        /\ "ai" \in Issued
        /\ Len(fileContents) = Len(sampled)
        /\ \A k \in 1..Len(sampled) : fileContents[k].path = sampled[k]

\* the page number of the first parameter named page, 0 without one
PageOf(params) ==
    IF \E k \in 1..Len(params) : params[k].key = "page"
    THEN LET first == CHOOSE k \in 1..Len(params) :
                          /\ params[k].key = "page"
                          /\ \A j \in 1..(k - 1) : params[j].key # "page"
         IN params[first].value
    ELSE 0

\* the page number the rel="last" link of a Link header carries, 0 without
LastPageOf(header) ==
    IF \E k \in 1..Len(header) : header[k].rel = "last"
    THEN LET last == CHOOSE k \in 1..Len(header) :
                         /\ header[k].rel = "last"
                         /\ \A j \in 1..(k - 1) : header[j].rel # "last"
         IN PageOf(header[last].params)
    ELSE 0

\* the second call of analyzeRepo, the commit listing, has been answered
CommitsAnswered ==
    /\ Len(responses) >= 2
    /\ responses[2].call = "commits"

\* the commit listing failed: non-OK, transport error, or no array as body
CommitsFailed ==
    \/ responses[2].how # "ok"
    \/ ~responses[2].body.data.isArray

\* the commit listing failed and its Link header gives no count either
CommitsFailedWithoutCount ==
    \/ responses[2].how # "ok"
    \/ /\ ~responses[2].body.data.isArray
       /\ LastPageOf(responses[2].body.header) = 0

FeedAnswered ==
    /\ analysisType = "profile"
    /\ Len(responses) >= 3
    /\ responses[3].call = "contributions"

\* the feed failed: non-OK, transport error, or a body that is no object
\* with an array of contributions
FeedFailed ==
    \/ responses[3].how # "ok"
    \/ ~responses[3].body.isObject
    \/ ~responses[3].body.hasContributions
    \/ responses[3].body.contributions.type # "array"

\* C9: a failed contribution feed (non-OK, transport error, malformed body)
\* yields the empty calendar and never aborts: the AI call follows and a
\* successful result carries contributionData = [].
C9_FeedFailureYieldsEmptyCalendar ==
    (FeedAnswered /\ FeedFailed) =>
        /\ Len(calls) >= 4 /\ calls[4] = "ai"
        /\ contributionData = JsArray(<<>>)
        /\ outcome = "success" => result.contributionData = JsArray(<<>>)

\* C10: after an OK commit listing, commitCount is the page number N > 0 of
\* the rel="last" link of the Link header; without such a number it is the
\* number of elements of the returned page.
C10_CommitCountInference ==
    (CommitsAnswered /\ responses[2].how = "ok") =>
        LET body == responses[2].body
            n == LastPageOf(body.header)
        IN IF n > 0
           THEN commitCount = n
           ELSE (body.readable /\ body.data.isArray) =>
                    commitCount = body.data.length


\* the positions of the AI call in the calls issued
AiCalls == {k \in 1..Len(calls) : calls[k] = "ai"}

\* the failed answers of the AI provider: a provider error or text that is
\* no JSON
FailedAiAnswers ==
    {k \in 1..Len(responses) :
        responses[k].call = "ai" /\ responses[k].how # "ok"}

\* C11: in analyzeRepo and analyzeProfile a provider error or an answer that
\* is no JSON ends the request in the AI failure, and the provider is invoked
\* once per request that reaches the AI call, never again after a failure.
C11_AiFailureIsFinal ==
    /\ Cardinality(AiCalls) <= 1
    /\ pc = "ai" => Cardinality(AiCalls) = 1
    /\ FailedAiAnswers # {} =>
          /\ pc = "done"
          /\ outcome = "failure"
          /\ error = AiFailureMessage(impl, analysisType)
          /\ Cardinality(AiCalls) = 1

\* the provider answered the repository analysis with text that is no JSON
C11_Witness ==
    /\ analysisType = "repo"
    /\ \E k \in FailedAiAnswers : responses[k].how = "unparseable"
    /\ outcome = "failure"


\* the AI provider answered with text that parses as JSON
ParsedAiAnswers ==
    {k \in 1..Len(responses) :
        responses[k].call = "ai" /\ responses[k].how = "ok"}

\* the defaults of the fields the parsed answer of analyzeRepo leaves out
RepoDefaultsHold(analysis) ==
    /\ ~analysis.items.present => result.items = <<>>
    /\ ~analysis.techStack.present => result.techStack = <<>>
    /\ ~analysis.fileStructureSummary.present => result.fileStructureSummary # ""
    /\ ~analysis.starRating.present => result.starRating = 0

\* the defaults of the fields the parsed answer of analyzeProfile leaves out
ProfileDefaultsHold(analysis) ==
    /\ ~analysis.profileSummary.present => result.profileSummary # ""
    /\ ~analysis.starRating.present => result.starRating = 0
    /\ ~analysis.mainExpertise.present => result.mainExpertise = <<>>
    /\ ~analysis.suggestions.present => result.suggestions = <<>>
    /\ ~analysis.healthScore.present => result.healthScore \in 0..100
    /\ \A k \in 1..Len(result.topRepos) :
          /\ result.topRepos[k].pitch # ""
          /\ result.topRepos[k].qualityScore > 0

\* C12: when the AI answer parses, whatever fields it leaves out or gives in
\* the wrong shape (an absent topRepos array included), the request ends in
\* success and the fields left out hold their defaults.
C12_ParsedAnswerAlwaysSucceeds ==
    \A k \in ParsedAiAnswers :
        /\ outcome = "success"
        /\ IF analysisType = "repo"
           THEN RepoDefaultsHold(responses[k].body)
           ELSE ProfileDefaultsHold(responses[k].body)


\* analyzeProfile has returned its result
ProfileReturned == analysisType = "profile" /\ outcome = "success"

\* the badge of the result with the given id is earned
Earned(id) ==
    \E k \in 1..Len(result.badges) :
        result.badges[k].id = id /\ result.badges[k].earned

\* C13: the badges of every profile result are the six catalog ids, each
\* once, in catalog order, each with a boolean earned.
C13_BadgesEnumerateCatalog ==
    ProfileReturned =>
        /\ Len(result.badges) = 6
        /\ [k \in 1..6 |-> result.badges[k].id] =
              <<"POLYGLOT", "STAR_GAZER", "COMMIT_MACHINE", "PERFECT_README",
                "COMMUNITY_BUILDER", "TOP_10_PERCENT">>
        /\ \A k \in 1..6 : result.badges[k].earned \in BOOLEAN

\* a profile result with a badge earned and a badge not earned
C13_Witness ==
    /\ ProfileReturned
    /\ Earned("STAR_GAZER")
    /\ ~Earned("POLYGLOT")


\* the request holds calendar data: the feed gave a list of days, not empty
CalendarAvailable ==
    /\ contributionData.type = "array"
    /\ contributionData.items # <<>>

\* the total of the counts of the calendar
RECURSIVE CalendarTotal(_)
CalendarTotal(days) ==
    IF days = <<>> THEN 0 ELSE Head(days).count + CalendarTotal(Tail(days))

\* C14: COMMIT_MACHINE is earned iff the calendar total is > 500 when the
\* calendar is available, and iff the public repository count is > 50 when
\* it is not (feed failed or empty).
C14_CommitMachine ==
    ProfileReturned =>
        ( Earned("COMMIT_MACHINE") <=>
            IF CalendarAvailable
            THEN CalendarTotal(contributionData.items) > 500
            ELSE user.public_repos > 50 )


\* the repository list as the upstream returned it, forks included
FetchedRepos ==
    IF responses[2].body.type = "array" THEN responses[2].body.items ELSE <<>>

\* the languages declared by the fetched repositories that are no forks
DeclaredLanguages ==
    {FetchedRepos[k].language :
        k \in {j \in 1..Len(FetchedRepos) :
                  ~FetchedRepos[j].fork /\ FetchedRepos[j].language # ""}}

\* C15: POLYGLOT is earned iff the repositories that are no forks declare at
\* least 5 distinct languages; forks and repositories without a language do
\* not count.
C15_Polyglot ==
    ProfileReturned =>
        /\ Earned("POLYGLOT") <=> Cardinality(DeclaredLanguages) >= 5
        /\ Cardinality(DeclaredLanguages) = 4 => ~Earned("POLYGLOT")
        /\ Cardinality(DeclaredLanguages) = 5 => Earned("POLYGLOT")

\* exactly 5 declared languages, beside a fork and a repository without one
C15_Witness ==
    /\ ProfileReturned
    /\ Cardinality(DeclaredLanguages) = 5
    /\ \E k \in 1..Len(FetchedRepos) : FetchedRepos[k].fork
    /\ \E k \in 1..Len(FetchedRepos) : FetchedRepos[k].language = ""
    /\ Earned("POLYGLOT")


\* the parsed answer of the AI provider to the request that returned
AiAnswer == responses[Len(responses)].body

\* the fetched repositories that are no forks
OwnRepos == SelectSeq(FetchedRepos, LAMBDA r : ~r.fork)

\* the scenario: 6 declared languages, a repository with 150 stars and 30
\* forks, and healthScore 92 from the AI
SixLanguageScenario ==
    /\ ProfileReturned
    /\ Cardinality(DeclaredLanguages) = 6
    /\ \E k \in 1..Len(OwnRepos) :
          OwnRepos[k].stargazers_count = 150 /\ OwnRepos[k].forks_count = 30
    /\ AiAnswer.healthScore.present
    /\ AiAnswer.healthScore.value = 92

AllBadgesEarned ==
    \A k \in 1..Len(result.badges) : result.badges[k].earned

\* C16 as stated: in the scenario all 6 badges are earned.
C16_ScenarioEarnsAllBadges ==
    SixLanguageScenario => (Len(result.badges) = 6 /\ AllBadgesEarned)

\* the AI rates the 150-star repository, one of at most 10 own repositories,
\* with a qualityScore >= 90
StarredRepoRatedHigh ==
    /\ Len(OwnRepos) <= 10
    /\ AiAnswer.topRepos.present
    /\ AiAnswer.topRepos.isArray
    /\ \E k \in 1..Len(OwnRepos) :
          /\ OwnRepos[k].stargazers_count = 150
          /\ \E j \in 1..Len(AiAnswer.topRepos.value) :
                /\ AiAnswer.topRepos.value[j].name = OwnRepos[k].full_name
                /\ AiAnswer.topRepos.value[j].qualityScore >= 90
                /\ \A h \in 1..(j - 1) :
                      AiAnswer.topRepos.value[h].name # OwnRepos[k].full_name

\* more than 50 public repositories and, where the feed was fetched, a
\* calendar total above 500
CommitSignalsHigh ==
    /\ user.public_repos > 50
    /\ FeedAnswered =>
          /\ contributionData.type = "array"
          /\ CalendarTotal(contributionData.items) > 500

\* C16: in the scenario, when also the AI rates the 150-star repository with
\* qualityScore >= 90, the public repository count is > 50 and the fetched
\* calendar totals > 500, all 6 badges are earned.
C16_FullScenarioEarnsAllBadges ==
    (SixLanguageScenario /\ StarredRepoRatedHigh /\ CommitSignalsHigh) =>
        (Len(result.badges) = 6 /\ AllBadgesEarned)

\* the full scenario has returned with a fetched calendar
C16_Witness ==
    /\ SixLanguageScenario
    /\ StarredRepoRatedHigh
    /\ CommitSignalsHigh
    /\ FeedAnswered
    /\ AllBadgesEarned


\* the entries of the AI answer's topRepos, none when it has no such array
AiRatedRepos ==
    IF AiAnswer.topRepos.present /\ AiAnswer.topRepos.isArray
    THEN AiAnswer.topRepos.value ELSE <<>>

\* the AI answer has an entry whose name is exactly the given one
RatedByAi(name) ==
    \E j \in 1..Len(AiRatedRepos) : AiRatedRepos[j].name = name

\* C17: the merged topRepos lists the repositories of the ground-truth top
\* list in its order; an entry without an exact-name match in the AI answer
\* has pitch "An interesting project." and the default qualityScore; no
\* entry has an empty pitch or qualityScore.
C17_MergeDefaults ==
    ProfileReturned =>
        LET truth == topReposPreAnalysis(repos)
        IN /\ Len(result.topRepos) = Len(truth)
           /\ \A k \in 1..Len(truth) :
                 /\ result.topRepos[k].name = truth[k].name
                 /\ result.topRepos[k].stars = truth[k].stars
                 /\ result.topRepos[k].pitch # ""
                 /\ result.topRepos[k].qualityScore # 0
                 /\ ~RatedByAi(truth[k].name) =>
                       /\ result.topRepos[k].pitch = "An interesting project."
                       /\ result.topRepos[k].qualityScore = DefaultQualityScore(impl)


\* the place of a repository in the fetched list
FetchPosition(name) ==
    CHOOSE j \in 1..Len(FetchedRepos) : FetchedRepos[j].full_name = name

\* the names of the repositories of the result's topRepos
TopNames == {result.topRepos[k].name : k \in 1..Len(result.topRepos)}

\* C18: topRepos of every profile result has at most 10 entries, all fetched
\* repositories that are no forks, by stars descending, equal stars in fetch
\* order, and no repository left out has more stars than one kept.
C18_TopReposRanked ==
    ProfileReturned =>
        LET top == result.topRepos
        IN /\ Len(top) <= 10
           /\ Len(top) = (IF Len(OwnRepos) < 10 THEN Len(OwnRepos) ELSE 10)
           /\ \A k \in 1..Len(top) :
                 \E j \in 1..Len(FetchedRepos) :
                    /\ FetchedRepos[j].full_name = top[k].name
                    /\ FetchedRepos[j].stargazers_count = top[k].stars
                    /\ ~FetchedRepos[j].fork
           /\ \A k, l \in 1..Len(top) :
                 k < l =>
                    \/ top[k].stars > top[l].stars
                    \/ /\ top[k].stars = top[l].stars
                       /\ FetchPosition(top[k].name) < FetchPosition(top[l].name)
           /\ \A j \in 1..Len(OwnRepos) :
                 OwnRepos[j].full_name \notin TopNames =>
                    \A k \in 1..Len(top) :
                       OwnRepos[j].stargazers_count <= top[k].stars

\* more than 10 own repositories and a fork were fetched, and repositories
\* with equal stars are in the top list
C18_Witness ==
    /\ ProfileReturned
    /\ Len(OwnRepos) > 10
    /\ Len(OwnRepos) < Len(FetchedRepos)
    /\ Len(result.topRepos) = 10
    /\ \E k, l \in 1..10 :
          k < l /\ result.topRepos[k].stars = result.topRepos[l].stars


\* analyzeRepo has returned its result
RepoReturned == analysisType = "repo" /\ outcome = "success"

\* C19: the items list of every result of analyzeRepo has at most 20
\* entries, however many the AI answer lists.
C19_ItemsAtMostTwenty ==
    RepoReturned => Len(result.items) <= 20


\* C20: healthScore of every profile result lies in 0..100: the AI's value
\* is clamped into the range and a missing one is replaced by a default
\* inside it.
C20_HealthScoreInRange ==
    ProfileReturned => result.healthScore \in 0..100


\* the sum of the star counts of a list of repositories
RECURSIVE StarsOf(_)
StarsOf(rs) ==
    IF rs = <<>> THEN 0
    ELSE Head(rs).stargazers_count + StarsOf(Tail(rs))

\* C21: totalStars of every profile result is the sum of the star counts of
\* all fetched repositories that are no forks, those beyond the top 10
\* included, and no fork adds to it.
C21_TotalStars ==
    ProfileReturned => result.totalStars = StarsOf(OwnRepos)

\* more than 10 own repositories with stars beyond the top 10, and a fork
\* with stars
C21_Witness ==
    /\ ProfileReturned
    /\ Len(OwnRepos) > 10
    /\ \E k \in 1..Len(FetchedRepos) :
          FetchedRepos[k].fork /\ FetchedRepos[k].stargazers_count > 0
    /\ result.totalStars = StarsOf(OwnRepos)
    /\ result.totalStars >
          StarsOf([k \in 1..Len(result.topRepos) |->
                      [stargazers_count |-> result.topRepos[k].stars]])


(***************************************************************************)
(* ContributionChart (src/unnamed/part_007).                               *)
(*                                                                         *)
(* A Date is a wall-clock reading [zone, day, hour] in the browser's time  *)
(* zone: day counts days from 1970-01-01, hour is the hour of the day.     *)
(* An ISO date string YYYY-MM-DD is the number of its day, which is what   *)
(* the keys of contributionsByDate and the date of a cell are.             *)
(***************************************************************************)
\* the day number of a calendar date
DaysFromCivil(y, m, d) ==
    LET yy == IF m <= 2 THEN y - 1 ELSE y
        era == yy \div 400
        yoe == yy - era * 400
        mp == IF m > 2 THEN m - 3 ELSE m + 9
        doy == (153 * mp + 2) \div 5 + d - 1
        doe == yoe * 365 + yoe \div 4 - yoe \div 100 + doy
    IN era * 146097 + doe - 719468

\* the calendar date [year, month, date] of a day number
CivilFromDays(n) ==
    LET z == n + 719468
        era == z \div 146097
        doe == z - era * 146097
        yoe == (doe - doe \div 1460 + doe \div 36524 - doe \div 146096) \div 365
        doy == doe - (365 * yoe + yoe \div 4 - yoe \div 100)
        mp == (5 * doy + 2) \div 153
        d == doy - (153 * mp + 2) \div 5 + 1
        m == IF mp < 10 THEN mp + 3 ELSE mp - 9
        y == yoe + era * 400
    IN [year |-> IF m <= 2 THEN y + 1 ELSE y, month |-> m, date |-> d]

\* Date.prototype.getDay of a day: 0 is Sunday; 1970-01-01 was a Thursday
getDay(day) == (day + 4) % 7

\* the first Sunday on or after a day
SundayOnOrAfter(day) == day + ((7 - getDay(day)) % 7)

\* America/New_York keeps daylight time from the second Sunday of March,
\* 2 o'clock, to the first Sunday of November, 2 o'clock
DaylightTime(day, hour) ==
    LET year == CivilFromDays(day).year
        first == SundayOnOrAfter(DaysFromCivil(year, 3, 8))
        last == SundayOnOrAfter(DaysFromCivil(year, 11, 1))
    IN /\ day > first \/ (day = first /\ hour >= 3)
       /\ day < last \/ (day = last /\ hour < 1)

\* hours the wall clock of a zone is ahead of UTC at a wall-clock reading
UtcOffset(zone, day, hour) ==
    CASE zone = "UTC" -> 0
      [] zone = "Asia/Tokyo" -> 9
      [] zone = "America/New_York" ->
           IF DaylightTime(day, hour) THEN -4 ELSE -5

\* date.toISOString().split('T')[0]: the UTC date of a wall-clock reading
toISODate(date) ==
    LET utcHour == date.hour - UtcOffset(date.zone, date.day, date.hour)
    IN IF utcHour < 0 THEN date.day - 1
       ELSE IF utcHour >= 24 THEN date.day + 1
       ELSE date.day

\* new Date(dateStr): UTC midnight of the date, read on the wall clock
parseISODate(zone, dateStr) ==
    LET offset == IF zone = "America/New_York"
                  THEN (IF DaylightTime(dateStr - 1, 20) THEN -4 ELSE -5)
                  ELSE UtcOffset(zone, dateStr, 0)
    IN IF offset < 0
       THEN [zone |-> zone, day |-> dateStr - 1, hour |-> 24 + offset]
       ELSE [zone |-> zone, day |-> dateStr, hour |-> offset]

\* date.setDate(date.getDate() + n): the wall clock moved by n days
addDays(date, n) == [date EXCEPT !.day = date.day + n]

WeeksShown == 53
DaysPerWeek == 7
WindowDays == 370

\* endDate: today moved to the Saturday of its week
endDate(now) == addDays(now, 6 - getDay(now.day))

\* startDate
startDate(now) == addDays(endDate(now), -WindowDays)

\* currentDate before the loop: startDate moved back to a Sunday
firstDate(now) ==
    addDays(startDate(now), -getDay(startDate(now).day))

\* new Map(data.map(d => [d.date, d])).get(dateStr): the last record of the
\* date, or no record
Records(records, dateStr) ==
    {k \in 1..Len(records) : records[k].date = dateStr}

\* a lookup that keeps the count of the record and drops its level
CellOfWithoutLevel(records, dateStr) ==
    IF Records(records, dateStr) = {}
    THEN [date |-> dateStr, count |-> 0, level |-> 0]
    ELSE [date |-> dateStr,
          count |-> records[CHOOSE k \in Records(records, dateStr) :
                               \A j \in Records(records, dateStr) :
                                  j <= k].count,
          level |-> 0]

\* contributionsByDate.get(dateStr) || { date: dateStr, count: 0, level: 0 }
CellOf(records, dateStr) ==
    IF Records(records, dateStr) = {}
    THEN [date |-> dateStr, count |-> 0, level |-> 0]
    ELSE records[CHOOSE k \in Records(records, dateStr) :
                  \A j \in Records(records, dateStr) : j <= k]

\* the two loops: week i, day j is currentDate after 7 (i - 1) + (j - 1) steps
BuildWeeks(now, records) ==
    [i \in 1..WeeksShown |->
        [j \in 1..DaysPerWeek |->
            CellOf(records,
                   toISODate(addDays(firstDate(now),
                                     DaysPerWeek * (i - 1) + (j - 1))))]]

\* toLocaleString('default', { month: 'short' }), by the number of the month
monthName(zone, dateStr) ==
    CivilFromDays(parseISODate(zone, dateStr).day).month

\* new Date(week[0].date).getDate() <= 7
firstDayOfMonth(zone, dateStr) ==
    CivilFromDays(parseISODate(zone, dateStr).day).date <= 7

\* weeks.reduce(...): the labels after the weeks from i on, given those before
RECURSIVE reduceLabels(_, _, _, _)
reduceLabels(zone, allWeeks, i, acc) ==
    IF i > Len(allWeeks) THEN acc
    ELSE LET first == allWeeks[i][1].date
             name == monthName(zone, first)
             emit == /\ firstDayOfMonth(zone, first)
                     /\ acc = <<>> \/ acc[Len(acc)].name # name
         IN reduceLabels(zone, allWeeks, i + 1,
                         IF emit
                         THEN Append(acc, [name |-> name, index |-> i - 1])
                         ELSE acc)

BuildMonthLabels(zone, allWeeks) == reduceLabels(zone, allWeeks, 1, <<>>)

(***************************************************************************)
(* Rendering the chart: the clock reading and the data prop are inputs.    *)
(***************************************************************************)
MaxShift == 6

Zones == {"UTC", "Asia/Tokyo", "America/New_York"}

\* hours of the day of a render, away from the hour a clock change skips
Hours == {0, 8, 19, 23}

\* days of a render: a week from each of three days in three years
Todays ==
    {base + shift : base \in {DaysFromCivil(2024, 3, 5),
                              DaysFromCivil(2025, 6, 10),
                              DaysFromCivil(2026, 1, 1)},
                    shift \in 0..MaxShift}

Clocks == {[zone |-> z, day |-> d, hour |-> h] :
              z \in Zones, d \in Todays, h \in Hours}

Contribution(dateStr, count, level) ==
    [date |-> dateStr, count |-> count, level |-> level]

\* data props for a render on a day: sparse records in and out of the window
DataInputs(day) ==
    { <<>>,
      <<Contribution(day, 3, 2)>>,
      <<Contribution(day - 200, 1, 1), Contribution(day - 3, 12, 4)>>,
      <<Contribution(day - 400, 7, 3), Contribution(day + 1, 2, 1)>>,
      <<Contribution(day - 30, 1, 1), Contribution(day - 30, 9, 4)>>,
      <<Contribution(day - 366, 4, 2), Contribution(day + 30, 5, 3)>> }

ChartInit ==
    /\ impl = "part_006"
    /\ tree = <<>>
    /\ sampled = NotSampled
    /\ singles = 0
    /\ RequestIdle
    /\ PageIdle
    /\ today \in Clocks
    /\ data \in DataInputs(today.day)
    /\ weeks = <<>>
    /\ monthLabels = <<>>

\* one render of ContributionChart
Render ==
    /\ weeks = <<>>
    /\ weeks' = BuildWeeks(today, data)
    /\ monthLabels' = BuildMonthLabels(today.zone, BuildWeeks(today, data))
    /\ UNCHANGED <<impl, samplerVars, requestVars, pageVars, today, data>>

ChartNext == Render

SpecChart == ChartInit /\ [][ChartNext]_vars

(***************************************************************************)
(* Vocabulary of the chart properties.                                     *)
(***************************************************************************)
Rendered == weeks # <<>>

CellCount == WeeksShown * DaysPerWeek

\* the k-th cell of the grid in column order
Cell(k) == weeks[((k - 1) \div DaysPerWeek) + 1][((k - 1) % DaysPerWeek) + 1]

CellDates == {Cell(k).date : k \in 1..CellCount}

\* the Saturday on or after the day of the render
SaturdayOnOrAfterToday == today.day + (6 - getDay(today.day))

\* the labels emitted for the weeks before week i
LabelsBefore(i) ==
    SelectSeq(monthLabels, LAMBDA l : l.index < i - 1)

LabelAt(i) == \E k \in 1..Len(monthLabels) : monthLabels[k].index = i - 1

\* C22: every render yields 53 weeks of 7 cells, 371 cells, whose dates are
\* pairwise distinct and go up by exactly one calendar day from cell to cell
C22_GridOfConsecutiveDays ==
    Rendered =>
        /\ Len(weeks) = 53
        /\ \A i \in 1..Len(weeks) : Len(weeks[i]) = 7
        /\ \A k \in 1..370 : Cell(k + 1).date = Cell(k).date + 1
        /\ Cardinality(CellDates) = 371

\* C23: the last cell is the Saturday on or after the current date, the
\* first cell is a Sunday 370 days earlier, every week starts on the same
\* weekday, and the current date is a cell of the grid
C23_GridEndsOnSaturdayOfToday ==
    Rendered =>
        /\ Cell(CellCount).date = SaturdayOnOrAfterToday
        /\ getDay(Cell(CellCount).date) = 6
        /\ Cell(1).date = SaturdayOnOrAfterToday - 370
        /\ getDay(Cell(1).date) = 0
        /\ \A i \in 1..Len(weeks) :
              getDay(weeks[i][1].date) = getDay(weeks[1][1].date)
        /\ today.day \in CellDates

\* C24: a cell whose date is in the input carries the count and level of the
\* input's record of that date, a cell whose date is not in the input has
\* count 0 and level 0, and an empty input gives 371 zero cells
C24_CellsCarryInput ==
    Rendered =>
        /\ \A k \in 1..CellCount :
              LET onDate == {r \in 1..Len(data) : data[r].date = Cell(k).date}
              IN IF onDate = {}
                 THEN Cell(k).count = 0 /\ Cell(k).level = 0
                 ELSE \E r \in onDate :
                         /\ Cell(k).count = data[r].count
                         /\ Cell(k).level = data[r].level
        /\ data = <<>> =>
              /\ Len(weeks) * Len(weeks[1]) = 371
              /\ \A k \in 1..CellCount :
                    Cell(k).count = 0 /\ Cell(k).level = 0

C24_Witness ==
    /\ Rendered
    /\ \E r \in 1..Len(data) :
          /\ data[r].date \notin CellDates
          /\ data[r].count > 0
    /\ \E k \in 1..CellCount :
          /\ Cell(k).count > 0
          /\ Cell(k).level > 0
          /\ \E r \in 1..Len(data) : data[r].date = Cell(k).date
    /\ \E k \in 1..CellCount : Cell(k).count = 0 /\ Cell(k).level = 0

\* C25: week i has a month label exactly when the date of its first cell is
\* within the first 7 days of a month and that month is not the month of the
\* label emitted last before it; so no two consecutive labels name the same
\* month, the indices go up strictly, and there are fewer labels than weeks
C25_MonthLabels ==
    Rendered =>
        /\ \A i \in 1..Len(weeks) :
              LET first == CivilFromDays(weeks[i][1].date)
                  before == LabelsBefore(i)
              IN LabelAt(i) <=>
                    /\ first.date <= 7
                    /\ before = <<>> \/ before[Len(before)].name # first.month
        /\ \A k \in 1..Len(monthLabels) - 1 :
              /\ monthLabels[k].name # monthLabels[k + 1].name
              /\ monthLabels[k].index < monthLabels[k + 1].index
        /\ Len(monthLabels) < Len(weeks)

(***************************************************************************)
(* Claims about the joins and the stages of a request.                     *)
(***************************************************************************)
\* a content fetch of the batch has not resolved
ContentPending ==
    \E k \in 1..Len(fileResult) : fileResult[k].state = "pending"

\* C26: once the batch of content fetches is issued, the request neither
\* calls the AI nor completes, with success or failure, while a member of
\* the batch has not resolved
C26_ContentJoin ==
    ContentPending => pc = "contents" /\ outcome = "pending"

\* C27: the three fetches of the profile path are issued together: once the
\* profile analysis has issued a call, the user, repos and contribution
\* fetches are all issued, so that all three can be in flight at once
C27_ProfileFetchesConcurrent ==
    analysisType = "profile" /\ calls # <<>> =>
        {"user", "repos", "contributions"} \subseteq Issued

\* every issued call resolves in the end, and a request is made
SpecLive == Init /\ [][Next]_vars /\ WF_vars(Next)

\* the stage of a request a call belongs to: FETCH, SAMPLE or INSIGHT
StageOf(call) ==
    CASE call \in {"repoDetails", "commits", "tree",
                   "user", "repos", "contributions"} -> 1
      [] call = "content" -> 2
      [] call = "ai" -> 3

\* the request is over
Terminal == pc = "done"

\* the calls of a request are issued in the order of the stages, the AI is
\* called after the fetches of the path, and a result is returned only after
\* the AI call
StagesInOrder ==
    /\ \A j, k \in 1..Len(calls) :
          j < k => StageOf(calls[j]) <= StageOf(calls[k])
    /\ "ai" \in Issued /\ analysisType = "repo" =>
          {"repoDetails", "tree"} \subseteq Issued
    /\ "ai" \in Issued /\ analysisType = "profile" =>
          {"user", "repos"} \subseteq Issued
    /\ outcome = "success" => "ai" \in Issued

\* C28: when every issued call resolves, a request ends in exactly one of
\* success and failure and never changes it afterwards, its stages come in
\* the order URL-VALIDATE, FETCH, SAMPLE, INSIGHT, AGGREGATE, and a request
\* whose AI answer has parsed ends in success
C28_RequestLifecycle ==
    /\ <>Terminal
    /\ [](Terminal <=> outcome \in {"success", "failure"})
    /\ [][outcome # "pending" => outcome' = outcome]_vars
    /\ []StagesInOrder
    /\ [](Terminal /\ ParsedAiAnswers # {} => outcome = "success")

(***************************************************************************)
(* The results pages (src/pages/ResultsPage.tsx, ProfileResultsPage.tsx    *)
(* and src/unnamed/part_004): the effect on the URL parameter.             *)
(***************************************************************************)
MaxAnalyses == 3

Pages == {"ResultsPage", "ProfileResultsPage"}

\* values of the URL parameter; the empty string is a missing parameter
PageUrls == {"", "https://github.com/o/r", "https://github.com/p/q"}

\* setError('No repository URL provided.') / 'No profile URL provided.'
NoUrlError == [of |-> "", message |-> "No URL provided."]

\* setError(err.message) of the analysis of a URL that threw
AnalysisError(url) == [of |-> url, message |-> "analysis failed"]

PageInit ==
    /\ impl = "services"
    /\ tree = <<>>
    /\ sampled = NotSampled
    /\ singles = 0
    /\ RequestIdle
    /\ ChartIdle
    /\ page \in Pages
    /\ Unmounted

\* the body of useEffect for a value of the URL parameter, up to the await
RunEffect(url) ==
    /\ started < MaxAnalyses
    /\ urlParam' = url
    /\ started' = started + 1
    /\ IF url = ""
       THEN /\ pageError' = NoUrlError
            /\ isLoading' = FALSE
            /\ UNCHANGED inFlight
       ELSE /\ isLoading' = TRUE
            /\ pageError' = NoError
            /\ inFlight' = inFlight \cup {[id |-> started + 1, url |-> url]}
    /\ UNCHANGED <<impl, samplerVars, requestVars, chartVars, page,
                   analysisResult>>

\* the page mounts: the effect runs for the parameter of the first render
Mount(url) ==
    /\ page # "none"
    /\ started = 0
    /\ RunEffect(url)

\* the URL parameter changes: the dependency [repoUrl] / [profileUrl]
\* differs, the effect runs again
ChangeUrl(url) ==
    /\ started > 0
    /\ url # urlParam
    /\ RunEffect(url)

\* await analyzeRepo(url) / analyzeProfile(url) of an effect run settles:
\* try, catch and finally of fetchGlossary / fetchProfileAnalysis
Settle(analysis, fulfilled) ==
    /\ analysis \in inFlight
    /\ inFlight' = inFlight \ {analysis}
    /\ IF fulfilled
       THEN /\ analysisResult' = [of |-> analysis.url]
            /\ UNCHANGED pageError
       ELSE /\ pageError' = AnalysisError(analysis.url)
            /\ UNCHANGED analysisResult
    /\ isLoading' = FALSE
    /\ UNCHANGED <<impl, samplerVars, requestVars, chartVars, page, urlParam,
                   started>>

PageNext ==
    \/ \E url \in PageUrls : Mount(url)
    \/ \E url \in PageUrls : ChangeUrl(url)
    \/ \E analysis \in inFlight, fulfilled \in BOOLEAN :
          Settle(analysis, fulfilled)

SpecPage == PageInit /\ [][PageNext]_vars

\* every analysis the page started has settled
Quiescent == started > 0 /\ inFlight = {}

\* what the page shows when it is not loading: the error view comes before
\* the result view
Displayed == IF pageError # NoError THEN pageError.of ELSE analysisResult.of

\* C29: when the URL parameter changed while an analysis was in flight, the
\* analysis shown once every analysis has settled is the one of the URL
\* requested last; a late completion of a superseded analysis does not
\* overwrite it
C29_LatestUrlWins ==
    Quiescent => Displayed = urlParam

\* C30: whenever isLoading is false, exactly one of analysisResult and error
\* is set
C30_ResultXorError ==
    started > 0 /\ ~isLoading =>
        (analysisResult # NoAnalysis) # (pageError # NoError)

=============================================================================
